---- MODULE Spec2Model ----
(***************************************************************************)
(* Model of .scripts/generate-pat.py: the pat signature aggregator.       *)
(*                                                                         *)
(* Strings are sequences of character codes (ASCII), so that strip, split, *)
(* join, startswith, rstrip and the string order used by sort are         *)
(* computed and not assumed.  A file is read line by line; the content of  *)
(* a file the tool did not write itself is supplied by the environment    *)
(* one line at a time, drawn from a universe of lines.                     *)
(***************************************************************************)
EXTENDS Integers, Sequences, FiniteSets, TLC

VARIABLES
    pc,          \* position of main(): "main", "open", "read", "conflicts", "generate", "done", "exit1", "crash"
    args,        \* the parsed command line (argparse namespace)
    exists,      \* paths of the regular files that exist before the tool writes
    universe,    \* the lines the environment may supply as file content
    infiles,     \* main(): the list of files to parse
    fileIdx,     \* main(): index in infiles of the file being parsed (0 before the loop)
    pos,         \* parse(): lines read from the file being parsed, when the tool wrote it
    signatures,  \* PatFile.signatures: ordered dict of ordered dicts
    counters,    \* main(): n_signatures, n_dropped summed over parse() calls
    stats,       \* handle_conflicts(): n_total, n_resolved, n_dropped as printed
    written,     \* content of the files the tool has written, by path (<<>>: not written)
    run,         \* 1: first invocation, 2: invocation on the emitted file
    \* history variables (read by no action's guard)
    nread,       \* number of lines read so far in this invocation
    raisedOn,    \* the line at which parse() raised (<<>> before)
    parsed,      \* the files handed to parse(), in order
    ingested,    \* the record lines read in this invocation
    inserted,    \* the canonical strings parse() added to signatures
    frozen,      \* signatures as handle_conflicts() found it
    firstIn,     \* the record lines the first invocation read ({} before)
    firstOut     \* what the first invocation emitted (<<>> before)

vars == <<pc, args, exists, universe, infiles, fileIdx, pos, signatures, counters,
          stats, written, run, nread, raisedOn, parsed, ingested, inserted, frozen,
          firstIn, firstOut>>

(***************************************************************************)
(* Bounds of the model                                                     *)
(***************************************************************************)
\* lines read per invocation
MaxLines == 3

(***************************************************************************)
(* Characters and string primitives (Python str methods)                   *)
(***************************************************************************)
\* ' ' the separator of split(" ") and " ".join
Space == 32
\* '.' the mask marker
Dot == 46
\* '#' starts a comment line
Hash == 35
\* '\n' appended by generate
Newline == 10

\* str.strip() without argument strips whitespace: space \t \n \v \f \r
IsWhite(c) == c \in {32, 9, 10, 11, 12, 13}

RECURSIVE LStrip(_)
LStrip(s) == IF s # <<>> /\ IsWhite(Head(s)) THEN LStrip(Tail(s)) ELSE s

RECURSIVE RStrip(_)
RStrip(s) == IF s # <<>> /\ IsWhite(s[Len(s)]) THEN RStrip(SubSeq(s, 1, Len(s) - 1)) ELSE s

Strip(s) == RStrip(LStrip(s))

\* str.rstrip('.')
RECURSIVE RStripDots(_)
RStripDots(s) == IF s # <<>> /\ s[Len(s)] = Dot THEN RStripDots(SubSeq(s, 1, Len(s) - 1)) ELSE s

StartsWith(s, p) == Len(p) <= Len(s) /\ SubSeq(s, 1, Len(p)) = p

EndsWith(s, p) == Len(p) <= Len(s) /\ SubSeq(s, Len(s) - Len(p) + 1, Len(s)) = p

\* s == "." * len(s)
AllDots(s) == \A i \in 1..Len(s) : s[i] = Dot

\* s.count('.')
CountDots(s) == Cardinality({i \in 1..Len(s) : s[i] = Dot})

\* s.split(" "): every single space separates, empty tokens are kept
RECURSIVE Split(_)
Split(s) ==
    IF \E i \in 1..Len(s) : s[i] = Space
    THEN LET i == CHOOSE k \in 1..Len(s) : s[k] = Space /\ \A m \in 1..(k - 1) : s[m] # Space
         IN  <<SubSeq(s, 1, i - 1)>> \o Split(SubSeq(s, i + 1, Len(s)))
    ELSE <<s>>

\* " ".join(tokens)
RECURSIVE Join(_)
Join(tokens) ==
    IF tokens = <<>> THEN <<>>
    ELSE IF Len(tokens) = 1 THEN tokens[1]
    ELSE tokens[1] \o <<Space>> \o Join(Tail(tokens))

\* list.pop(i) with i counted from 1
Pop(tokens, i) == SubSeq(tokens, 1, i - 1) \o SubSeq(tokens, i + 1, Len(tokens))

\* a < b for Python strings: by code point, a proper prefix first
RECURSIVE StrLess(_, _)
StrLess(a, b) ==
    IF b = <<>> THEN FALSE
    ELSE IF a = <<>> THEN TRUE
    ELSE IF Head(a) # Head(b) THEN Head(a) < Head(b)
    ELSE StrLess(Tail(a), Tail(b))

\* the least string of a non-empty set
MinStr(S) == CHOOSE x \in S : \A y \in S : x = y \/ StrLess(x, y)

\* sorted(S) for a set of strings
RECURSIVE SortedSet(_)
SortedSet(S) == IF S = {} THEN <<>> ELSE <<MinStr(S)>> \o SortedSet(S \ {MinStr(S)})

\* list.sort() for a list of strings (insertion into the sorted tail keeps duplicates)
RECURSIVE SortList(_)
SortList(l) ==
    IF l = <<>> THEN <<>>
    ELSE LET rest == SortList(Tail(l))
             k == Cardinality({i \in 1..Len(rest) : StrLess(rest[i], Head(l))})
         IN  SubSeq(rest, 1, k) \o <<Head(l)>> \o SubSeq(rest, k + 1, Len(rest))

(***************************************************************************)
(* String constants of the program                                         *)
(***************************************************************************)
\* "---"
Sentinel == <<45, 45, 45>>
\* "0000"
ZeroSize == <<48, 48, 48, 48>>
\* "00 0000"
ZeroCrc == <<48, 48, 32, 48, 48, 48, 48>>
\* 'case.0x', 'case.default.0x', 'fcn.', 'loc.', 'sub.', 'reloc.'
BAD_SYMBOLS_BEG ==
    << <<99, 97, 115, 101, 46, 48, 120>>,
       <<99, 97, 115, 101, 46, 100, 101, 102, 97, 117, 108, 116, 46, 48, 120>>,
       <<102, 99, 110, 46>>,
       <<108, 111, 99, 46>>,
       <<115, 117, 98, 46>>,
       <<114, 101, 108, 111, 99, 46>> >>
BAD_SYMBOLS_END == << >>
\* '', 'entry0'
BAD_SYMBOLS_ALL == << <<>>, <<101, 110, 116, 114, 121, 48>> >>

is_bad_symbol(name) ==
    \/ \E i \in 1..Len(BAD_SYMBOLS_BEG) : StartsWith(name, BAD_SYMBOLS_BEG[i])
    \/ \E i \in 1..Len(BAD_SYMBOLS_END) : EndsWith(name, BAD_SYMBOLS_END[i])
    \/ \E i \in 1..Len(BAD_SYMBOLS_ALL) : name = BAD_SYMBOLS_ALL[i]

(***************************************************************************)
(* Rationals <<numerator, denominator>>, denominator > 0, for the two      *)
(* float quantities of the program.  On the inputs of this model the exact *)
(* comparison and the float comparison of the program agree.               *)
(***************************************************************************)
RECURSIVE Gcd(_, _)
Gcd(a, b) == IF b = 0 THEN a ELSE Gcd(b, a % b)

RatNorm(r) == LET g == Gcd(r[1], r[2]) IN IF g = 0 THEN r ELSE <<r[1] \div g, r[2] \div g>>

RatAdd(r, q) == RatNorm(<<r[1] * q[2] + q[1] * r[2], r[2] * q[2]>>)

RatLess(r, q) == r[1] * q[2] < q[1] * r[2]

(***************************************************************************)
(* difflib.SequenceMatcher(None, a, b).ratio(), no junk, below the         *)
(* autojunk size: 2 * M / T, M the characters in the matching blocks found *)
(* by the recursive longest-matching-block search.                         *)
(***************************************************************************)
\* length of the common run starting at a[i], b[j]
RECURSIVE RunLen(_, _, _, _)
RunLen(a, b, i, j) ==
    IF i <= Len(a) /\ j <= Len(b) /\ a[i] = b[j] THEN 1 + RunLen(a, b, i + 1, j + 1) ELSE 0

\* find_longest_match: the longest block, the earliest in a, then the earliest in b
RECURSIVE Matches(_, _)
Matches(a, b) ==
    IF a = <<>> \/ b = <<>> THEN 0
    ELSE LET P == (1..Len(a)) \X (1..Len(b))
             best == CHOOSE p \in P : \A q \in P :
                        \/ RunLen(a, b, p[1], p[2]) > RunLen(a, b, q[1], q[2])
                        \/ /\ RunLen(a, b, p[1], p[2]) = RunLen(a, b, q[1], q[2])
                           /\ (p[1] < q[1] \/ (p[1] = q[1] /\ p[2] <= q[2]))
             k == RunLen(a, b, best[1], best[2])
         IN  IF k = 0 THEN 0
             ELSE k + Matches(SubSeq(a, 1, best[1] - 1), SubSeq(b, 1, best[2] - 1))
                    + Matches(SubSeq(a, best[1] + k, Len(a)), SubSeq(b, best[2] + k, Len(b)))

Ratio(a, b) == IF Len(a) + Len(b) = 0 THEN <<1, 1>> ELSE RatNorm(<<2 * Matches(a, b), Len(a) + Len(b)>>)

\* avg and cnt of similarity_group over the ordered pairs (i, j) from index n on
RECURSIVE SimSum(_, _)
SimSum(grp, n) ==
    IF n > Len(grp) * Len(grp) THEN [avg |-> <<0, 1>>, cnt |-> 0]
    ELSE LET i == ((n - 1) \div Len(grp)) + 1
             j == ((n - 1) % Len(grp)) + 1
             rest == SimSum(grp, n + 1)
         IN  IF grp[i] = grp[j] THEN rest
             ELSE [avg |-> RatAdd(Ratio(grp[i], grp[j]), rest.avg), cnt |-> rest.cnt + 1]

similarity_group(grp) ==
    LET s == SimSum(grp, 1)
    IN  IF s.cnt < 1 THEN <<1, 1>> ELSE RatNorm(<<s.avg[1], s.avg[2] * s.cnt>>)

\* the percentage of unmasked pattern characters, as a rational
calculate_stat_bytes(tokens) ==
    LET mbytes == IF Len(tokens) > 6 THEN tokens[1] \o tokens[7] ELSE tokens[1]
        masked == CountDots(mbytes)
    IN  <<100 * Len(mbytes) - 100 * masked, Len(mbytes)>>

(***************************************************************************)
(* Python dict: a sequence of [k, v] in insertion order                    *)
(***************************************************************************)
DictHas(d, k) == \E i \in 1..Len(d) : d[i].k = k

DictIdx(d, k) == CHOOSE i \in 1..Len(d) : d[i].k = k

DictGet(d, k) == d[DictIdx(d, k)].v

\* d[k] = v: a new key goes last, an old key keeps its place
DictSet(d, k, v) ==
    IF DictHas(d, k) THEN [d EXCEPT ![DictIdx(d, k)].v = v]
    ELSE Append(d, [k |-> k, v |-> v])

(***************************************************************************)
(* PatFile.parse: the body of the loop for one line                        *)
(***************************************************************************)
\* mutant of KeyOf: the slice one field to the right, tokens[2:4]
KeyOfShifted(tokens) == Join(SubSeq(tokens, 3, 4))

\* key = " ".join(tokens[1:3])
KeyOf(tokens) == Join(SubSeq(tokens, 2, 3))

\* prelude = tokens[0]
PreludeOf(tokens) == tokens[1]

\* the first branch of the postlude block: drop it when no postlude is wanted,
\* cut it when it is longer than max_postlude (already doubled)
CutPostlude(tokens, max_postlude) ==
    IF max_postlude = 0 THEN Pop(tokens, 7)
    ELSE IF Len(tokens[7]) > max_postlude
         THEN [tokens EXCEPT ![7] = SubSeq(tokens[7], 1, max_postlude)]
         ELSE tokens

\* mutant of StripPostlude: a postlude left empty is not popped
StripPostludeNoPop(tokens) == [tokens EXCEPT ![7] = RStripDots(tokens[7])]

\* tokens[6] = tokens[6].rstrip('.'), then the pop of a postlude left empty
StripPostlude(tokens) ==
    LET t == [tokens EXCEPT ![7] = RStripDots(tokens[7])]
    IN  IF AllDots(t[7]) THEN Pop(t, 7) ELSE t

\* percentage < threshold
BelowCompleteness(tokens, threshold) == RatLess(calculate_stat_bytes(tokens), <<threshold, 1>>)

\* What one iteration does with `line`:
\*   "skip"   comment or empty line, or a bad symbol: continue, nothing counted
\*   "break"  the sentinel: the loop ends
\*   "raise"  an uncaught IndexError
\*   "drop"   counted in n_signatures and n_dropped
\*   "add"    counted in n_signatures, canon added to signatures[key][prelude]
ParseLine(raw, max_postlude, threshold) ==
    LET line == Strip(raw)
        tokens == Split(line)
        none == [kind |-> "skip", key |-> <<>>, prelude |-> <<>>, canon |-> <<>>]
    IN  IF StartsWith(line, <<Hash>>) \/ line = <<>> THEN none
        ELSE IF line = Sentinel THEN [none EXCEPT !.kind = "break"]
        ELSE IF Len(tokens) < 6 THEN [none EXCEPT !.kind = "raise"]
        ELSE IF is_bad_symbol(tokens[6]) THEN none
        ELSE IF tokens[4] = ZeroSize THEN [none EXCEPT !.kind = "drop"]
        ELSE IF AllDots(tokens[1]) THEN [none EXCEPT !.kind = "drop"]
        ELSE IF Len(tokens) > 6 /\ Len(CutPostlude(tokens, max_postlude)) < 7
             THEN [none EXCEPT !.kind = "raise"]
        ELSE LET final == IF Len(tokens) > 6
                          THEN StripPostlude(CutPostlude(tokens, max_postlude))
                          ELSE tokens
             IN  IF BelowCompleteness(final, threshold) THEN [none EXCEPT !.kind = "drop"]
                 ELSE [kind |-> "add", key |-> KeyOf(tokens), prelude |-> PreludeOf(tokens),
                       canon |-> Join(final)]

\* lines 152-158: signatures[key][prelude].add(canon), creating what is missing
Insert(sigs, key, prelude, canon) ==
    LET inner == IF DictHas(sigs, key) THEN DictGet(sigs, key) ELSE <<>>
        leaf == IF DictHas(inner, prelude) THEN DictGet(inner, prelude) ELSE {}
    IN  DictSet(sigs, key, DictSet(inner, prelude, leaf \cup {canon}))

(***************************************************************************)
(* PatFile.handle_conflicts                                                *)
(***************************************************************************)
\* fcns = [s.split(" ")[5] for s in leaf]
Fcns(leaf) == [i \in 1..Len(leaf) |-> Split(leaf[i])[6]]

\* mutant of DropLeaf: a score equal to the threshold drops the leaf too
DropLeafAtThreshold(crc, leaf, threshold) ==
    \/ crc = ZeroCrc
    \/ ~RatLess(threshold, similarity_group(Fcns(leaf)))

\* a colliding leaf is deleted: lines 184 and 193
DropLeaf(crc, leaf, threshold) ==
    \/ crc = ZeroCrc
    \/ RatLess(similarity_group(Fcns(leaf)), threshold)

\* mutant of Keep: the last record of the sorted leaf
KeepLast(leaf) == leaf[Len(leaf)]

\* the record kept of a sorted leaf: lines 173 and 201
Keep(leaf) == leaf[1]

\* one prelude of one crc after both loops: <<>> when deleted, else its [k, v]
ResolveLeaf(crc, e, threshold) ==
    LET leaf == SortedSet(e.v)
    IN  IF Len(leaf) < 2 THEN <<[k |-> e.k, v |-> Keep(leaf)]>>
        ELSE IF DropLeaf(crc, leaf, threshold) THEN <<>>
        ELSE <<[k |-> e.k, v |-> Keep(leaf)]>>

RECURSIVE ResolveInner(_, _, _)
ResolveInner(crc, inner, threshold) ==
    IF inner = <<>> THEN <<>>
    ELSE ResolveLeaf(crc, Head(inner), threshold) \o ResolveInner(crc, Tail(inner), threshold)

\* every leaf of sigs as [crc, pre, leaf], in iteration order
RECURSIVE Leaves(_)
Leaves(sigs) ==
    IF sigs = <<>> THEN <<>>
    ELSE [i \in 1..Len(Head(sigs).v) |->
             [crc |-> Head(sigs).k, pre |-> Head(sigs).v[i].k, leaf |-> Head(sigs).v[i].v]]
         \o Leaves(Tail(sigs))

RECURSIVE SumSeq(_)
SumSeq(s) == IF s = <<>> THEN 0 ELSE Head(s) + SumSeq(Tail(s))

\* mutant of CountResolved: one per collapsed leaf
CountResolvedLeaves(sigs, threshold) ==
    SumSeq([i \in 1..Len(Leaves(sigs)) |->
        LET l == Leaves(sigs)[i]
        IN  IF Cardinality(l.leaf) >= 2 /\ ~DropLeaf(l.crc, SortedSet(l.leaf), threshold)
            THEN 1 ELSE 0])

\* the counters of handle_conflicts; every one is a number of signatures
CountTotal(sigs) == SumSeq([i \in 1..Len(Leaves(sigs)) |-> Cardinality(Leaves(sigs)[i].leaf)])

CountDropped(sigs, threshold) ==
    SumSeq([i \in 1..Len(Leaves(sigs)) |->
        LET l == Leaves(sigs)[i]
        IN  IF Cardinality(l.leaf) >= 2 /\ DropLeaf(l.crc, SortedSet(l.leaf), threshold)
            THEN Cardinality(l.leaf) ELSE 0])

CountResolved(sigs, threshold) ==
    SumSeq([i \in 1..Len(Leaves(sigs)) |->
        LET l == Leaves(sigs)[i]
        IN  IF Cardinality(l.leaf) >= 2 /\ ~DropLeaf(l.crc, SortedSet(l.leaf), threshold)
            THEN Cardinality(l.leaf) ELSE 0])

\* mutant of Unresolvable: a leaf of two records passes
UnresolvableAboveTwo(sigs, resolve) ==
    ~resolve /\ \E i \in 1..Len(Leaves(sigs)) : Cardinality(Leaves(sigs)[i].leaf) > 2

\* line 175: a leaf of two or more records and no --auto
Unresolvable(sigs, resolve) ==
    ~resolve /\ \E i \in 1..Len(Leaves(sigs)) : Cardinality(Leaves(sigs)[i].leaf) >= 2

handle_conflicts(sigs, resolve, threshold) ==
    IF Unresolvable(sigs, resolve) \/ CountTotal(sigs) < 1
    THEN [exit |-> TRUE, sigs |-> sigs, n_total |-> 0, n_resolved |-> 0, n_dropped |-> 0]
    ELSE [exit |-> FALSE,
          sigs |-> [i \in 1..Len(sigs) |->
                       [k |-> sigs[i].k, v |-> ResolveInner(sigs[i].k, sigs[i].v, threshold)]],
          n_total |-> CountTotal(sigs),
          n_resolved |-> CountResolved(sigs, threshold),
          n_dropped |-> CountDropped(sigs, threshold)]

(***************************************************************************)
(* PatFile.generate                                                        *)
(***************************************************************************)
\* mutant of SortLines: the lines stay in the order of the dict
SortLinesNot(lines) == lines

\* lines 87-92: one line per leaf, then lines.sort()
SortLines(lines) == SortList(lines)

generate(sigs) ==
    SortLines([i \in 1..Len(Leaves(sigs)) |-> Leaves(sigs)[i].leaf \o <<Newline>>])
    \o <<Sentinel \o <<Newline>>>>

(***************************************************************************)
(* The lines files may hold                                                *)
(***************************************************************************)
\* "ABCD.. 08 12 0010 00 fa"  (a record)
LnFa == <<65, 66, 67, 68, 46, 46, 32, 48, 56, 32, 49, 50, 32, 48, 48, 49, 48, 32, 48, 48, 32, 102, 97>>
\* " ABCD.. 08 12 0010 00 fb "  (same leaf as LnFa, a name at similarity 0.5 of fa, blanks around the line)
LnFb == <<32, 65, 66, 67, 68, 46, 46, 32, 48, 56, 32, 49, 50, 32, 48, 48, 49, 48, 32, 48, 48, 32, 102, 98, 32>>
\* "ABCD.. 08 12 0010 00 g"  (same leaf, a name at similarity 0 of fa)
LnG == <<65, 66, 67, 68, 46, 46, 32, 48, 56, 32, 49, 50, 32, 48, 48, 49, 48, 32, 48, 48, 32, 103>>
\* "ABCD.. 08 12 0020 00 fa ..E."  (same leaf and name, another size, a postlude)
LnPost == <<65, 66, 67, 68, 46, 46, 32, 48, 56, 32, 49, 50, 32, 48, 48, 50, 48, 32, 48, 48, 32, 102, 97, 32, 46, 46, 69, 46>>
\* "ABCD.. 00 0000 0010 00 fa"  (a record under the key 00 0000)
LnZFa == <<65, 66, 67, 68, 46, 46, 32, 48, 48, 32, 48, 48, 48, 48, 32, 48, 48, 49, 48, 32, 48, 48, 32, 102, 97>>
\* "ABCD.. 08 12 0010 00 fab"  (same leaf, a name at similarity 0.8 of fa and of fb)
LnFab == <<65, 66, 67, 68, 46, 46, 32, 48, 56, 32, 49, 50, 32, 48, 48, 49, 48, 32, 48, 48, 32, 102, 97, 98>>
\* "ABCD.. 00 0000 0020 00 fa"  (same leaf and name as LnZFa, another size)
LnZFa2 == <<65, 66, 67, 68, 46, 46, 32, 48, 48, 32, 48, 48, 48, 48, 32, 48, 48, 50, 48, 32, 48, 48, 32, 102, 97>>
\* "ABCD.. 08 12 0000 00 fa"  (function size 0000)
LnSize0 == <<65, 66, 67, 68, 46, 46, 32, 48, 56, 32, 49, 50, 32, 48, 48, 48, 48, 32, 48, 48, 32, 102, 97>>
\* ".. 08 12 0010 00 fa"  (a prelude of mask markers only)
LnMasked == <<46, 46, 32, 48, 56, 32, 49, 50, 32, 48, 48, 49, 48, 32, 48, 48, 32, 102, 97>>
\* "AB.... 08 12 0010 00 fa"  (one third of the pattern unmasked)
LnSparse == <<65, 66, 46, 46, 46, 46, 32, 48, 56, 32, 49, 50, 32, 48, 48, 49, 48, 32, 48, 48, 32, 102, 97>>
\* "ABCD.. 08 12 0010 00 loc.1"  (a generated symbol name)
LnBadSym == <<65, 66, 67, 68, 46, 46, 32, 48, 56, 32, 49, 50, 32, 48, 48, 49, 48, 32, 48, 48, 32, 108, 111, 99, 46, 49>>
\* "#c"  (a comment)
LnComment == <<35, 99>>
\* ""  (an empty line)
LnEmpty == <<>>
\* "---"  (the sentinel)
LnSentinel == <<45, 45, 45>>
\* "ABCD.. 08 12"  (three fields only)
LnShort == <<65, 66, 67, 68, 46, 46, 32, 48, 56, 32, 49, 50>>
\* "ABCD.. 08 12 0010 00 fa .... EEFF"  (eight fields)
LnExtra == <<65, 66, 67, 68, 46, 46, 32, 48, 56, 32, 49, 50, 32, 48, 48, 49, 48, 32, 48, 48, 32, 102, 97, 32, 46, 46, 46, 46, 32, 69, 69, 70, 70>>

\* Three families of file content: records that collide, records the filters
\* of parse() reject, and lines that are no records
CollidingLines == {LnFa, LnFb, LnG, LnFab, LnZFa, LnZFa2, LnSentinel}
FilteredLines == {LnFa, LnPost, LnSize0, LnMasked, LnSparse, LnBadSym, LnSentinel}
OtherLines == {LnFa, LnFb, LnComment, LnEmpty, LnShort, LnExtra, LnSentinel}

\* the lines of the runs that explore the command line
FewLines == {LnFa, LnSentinel}

(***************************************************************************)
(* The file system main() looks at                                         *)
(***************************************************************************)
\* the model's paths that end in ".pat"
PatNames == {"a.pat", "b.pat", "o.pat", "o2.pat", "d/b.pat", "d/o.pat", "d/s/c.pat"}
Paths == PatNames \cup {"n.txt", ""}
Dirs == {"d"}
\* what a directory holds directly, and below its subdirectories
Children(path) == IF path = "d" THEN <<"d/b.pat", "d/o.pat">> ELSE <<>>
Deeper(path) == IF path = "d" THEN <<"d/s/c.pat">> ELSE <<>>
\* the output path of the invocation on the emitted file
SecondOut == "o2.pat"

isfile(path) == path \in exists \/ written[path] # <<>>

isdir(path) == path \in Dirs

is_pat(file) == file \in PatNames /\ isfile(file)

RECURSIVE Filter(_, _)
Filter(l, S) ==
    IF l = <<>> THEN <<>>
    ELSE (IF Head(l) \in S THEN <<Head(l)>> ELSE <<>>) \o Filter(Tail(l), S)

list_pat_files(path, recursive) ==
    IF recursive
    THEN Filter(Children(path) \o Deeper(path), {f \in PatNames : isfile(f)})
    ELSE Filter(Children(path), {f \in PatNames : is_pat(f)})

\* list.remove(x): the first occurrence only
RECURSIVE ListRemove(_, _)
ListRemove(l, x) ==
    IF l = <<>> THEN <<>>
    ELSE IF Head(l) = x THEN Tail(l)
    ELSE <<Head(l)>> \o ListRemove(Tail(l), x)

InList(l, x) == \E i \in 1..Len(l) : l[i] = x

RECURSIVE Concat(_)
Concat(ls) == IF ls = <<>> THEN <<>> ELSE Head(ls) \o Concat(Tail(ls))

\* lines 229-234: the arguments main() refuses
BadArguments(a) ==
    \/ Len(a.input) < 1 /\ Len(a.directory) < 1
    \/ a.output = ""
    \/ a.threshold[1] <= 0
    \/ a.threshold[1] >= a.threshold[2]
    \/ a.max_postlude < 0

\* lines 239-250: infiles before the output is looked for
Collected(a) ==
    a.input \o Concat([i \in 1..Len(a.directory) |-> list_pat_files(a.directory[i], a.recursive)])

\* lines 256-258: the self-reference guard
RemoveOutput(l, output) == IF InList(l, output) THEN ListRemove(l, output) ELSE l

\* PatFile.__init__: self.max_postlude
PatMaxPostlude == args.max_postlude * 2

(***************************************************************************)
(* State machine                                                           *)
(***************************************************************************)
NoCounters == [n_signatures |-> 0, n_dropped |-> 0, file_signatures |-> 0, file_dropped |-> 0]
NoStats == [n_total |-> 0, n_resolved |-> 0, n_dropped |-> 0]

Fresh ==
    /\ pc = "main"
    /\ infiles = <<>>
    /\ fileIdx = 0
    /\ pos = 0
    /\ signatures = <<>>
    /\ counters = NoCounters
    /\ stats = NoStats
    /\ written = [p \in Paths |-> <<>>]
    /\ run = 1
    /\ nread = 0
    /\ raisedOn = <<>>
    /\ parsed = <<>>
    /\ ingested = {}
    /\ inserted = {}
    /\ frozen = <<>>
    /\ firstIn = {}
    /\ firstOut = <<>>

BaseArgs ==
    [input |-> <<"a.pat", "b.pat">>, directory |-> <<>>, output |-> "o.pat",
     threshold |-> <<1, 2>>, max_postlude |-> 1, max_masked |-> 50,
     auto |-> TRUE, test |-> FALSE, overwrite |-> FALSE, recursive |-> FALSE]

\* two input files of any lines, every way of resolving and cutting; the
\* filtered records also under a higher minimum of completeness
Init ==
    /\ Fresh
    /\ \/ /\ args \in {[BaseArgs EXCEPT !.max_postlude = mp, !.auto = au] :
                          mp \in {0, 1, 2}, au \in BOOLEAN}
                     \cup {[BaseArgs EXCEPT !.test = TRUE]}
          /\ universe \in {CollidingLines, FilteredLines, OtherLines}
       \/ /\ args \in {[BaseArgs EXCEPT !.max_postlude = mp, !.max_masked = 70] :
                          mp \in {0, 1, 2}}
          /\ universe = FilteredLines
    /\ exists = {"a.pat", "b.pat", "n.txt"}

\* the command lines: inputs, directories and outputs that meet or not
InitMain ==
    /\ Fresh
    /\ args \in
         {[BaseArgs EXCEPT !.input = inp, !.directory = dir, !.output = out,
                           !.overwrite = ow, !.recursive = rec] :
             inp \in {<<>>, <<"a.pat">>, <<"d/o.pat">>, <<"d/o.pat", "d/o.pat">>, <<"n.txt">>},
             dir \in {<<>>, <<"d">>, <<"x">>},
             out \in {"", "d/o.pat", "o.pat"},
             ow \in BOOLEAN, rec \in BOOLEAN}
         \cup {[BaseArgs EXCEPT !.threshold = th, !.max_postlude = mp, !.test = te] :
             th \in {<<0, 1>>, <<1, 2>>, <<1, 1>>}, mp \in {-1, 1}, te \in BOOLEAN}
    /\ exists \in {{"a.pat", "b.pat", "n.txt", "d/b.pat", "d/s/c.pat"},
                   {"a.pat", "b.pat", "n.txt", "d/b.pat", "d/s/c.pat", "d/o.pat"}}
    /\ universe = FewLines

\* main() up to the construction of PatFile: lines 229-277
Main ==
    /\ pc = "main"
    /\ LET found == Collected(args)
           kept == RemoveOutput(found, args.output)
       IN  IF \/ BadArguments(args)
              \/ \E i \in 1..Len(args.input) : ~is_pat(args.input[i])
              \/ \E i \in 1..Len(args.directory) : ~isdir(args.directory[i])
              \/ isfile(args.output) /\ ~args.overwrite /\ ~args.test
              \/ Len(kept) < 1
           THEN pc' = "exit1" /\ infiles' = infiles
           ELSE pc' = "open" /\ infiles' = kept
    /\ UNCHANGED <<args, exists, universe, fileIdx, pos, signatures, counters, stats,
                   written, run, nread, raisedOn, parsed, ingested, inserted, frozen,
                   firstIn, firstOut>>

\* line 278-280 and the open() of parse: the next file
OpenFile ==
    /\ pc = "open"
    /\ fileIdx < Len(infiles)
    /\ fileIdx' = fileIdx + 1
    /\ pos' = 0
    /\ parsed' = Append(parsed, infiles[fileIdx + 1])
    /\ counters' = [counters EXCEPT !.file_signatures = 0, !.file_dropped = 0]
    /\ pc' = "read"
    /\ UNCHANGED <<args, exists, universe, infiles, signatures, stats, written, run,
                   nread, raisedOn, ingested, inserted, frozen, firstIn, firstOut>>

\* parse() returns and main() adds its counts: lines 159, 281-282
Return(c) ==
    [c EXCEPT !.n_signatures = c.n_signatures + c.file_signatures,
              !.n_dropped = c.n_dropped + c.file_dropped]

\* the file being parsed, and its content when the tool wrote it
CurFile == infiles[fileIdx]

\* one iteration of the loop of parse() on `line`: lines 105-158
Step(line) ==
    LET r == ParseLine(line, PatMaxPostlude, args.max_masked)
        counted == r.kind \in {"drop", "add"}
    IN  /\ nread' = nread + 1
        /\ raisedOn' = IF r.kind = "raise" THEN line ELSE raisedOn
        /\ ingested' = IF r.kind = "break" THEN ingested ELSE ingested \cup {line}
        /\ pc' = CASE r.kind = "break" -> "open"
                   [] r.kind = "raise" -> "crash"
                   [] OTHER -> "read"
        /\ counters' =
             LET c == [counters EXCEPT
                         !.file_signatures = @ + (IF counted THEN 1 ELSE 0),
                         !.file_dropped = @ + (IF r.kind = "drop" THEN 1 ELSE 0)]
             IN  IF r.kind = "break" THEN Return(c) ELSE c
        /\ signatures' = IF r.kind = "add"
                         THEN Insert(signatures, r.key, r.prelude, r.canon)
                         ELSE signatures
        /\ inserted' = IF r.kind = "add" THEN inserted \cup {r.canon} ELSE inserted
        /\ UNCHANGED <<args, exists, universe, infiles, fileIdx, stats, written, run,
                       parsed, frozen, firstIn, firstOut>>

\* the next line of the file: of its content when the tool wrote the file,
\* any line otherwise
ReadLine ==
    /\ pc = "read"
    /\ IF written[CurFile] # <<>>
       THEN /\ pos < Len(written[CurFile])
            /\ pos' = pos + 1
            /\ Step(written[CurFile][pos + 1])
       ELSE /\ nread < MaxLines
            /\ pos' = pos
            /\ \E line \in universe : Step(line)

\* the file ends without a sentinel
EndOfFile ==
    /\ pc = "read"
    /\ written[CurFile] # <<>> => pos = Len(written[CurFile])
    /\ counters' = Return(counters)
    /\ pc' = "open"
    /\ UNCHANGED <<args, exists, universe, infiles, fileIdx, pos, signatures, stats,
                   written, run, nread, raisedOn, parsed, ingested, inserted, frozen,
                   firstIn, firstOut>>

\* line 291, after the last file
HandleConflicts ==
    /\ pc = "open"
    /\ fileIdx = Len(infiles)
    /\ LET r == handle_conflicts(signatures, args.auto, args.threshold)
       IN  /\ frozen' = signatures
           /\ IF r.exit
              THEN pc' = "exit1" /\ UNCHANGED <<signatures, stats>>
              ELSE /\ pc' = IF args.test THEN "done" ELSE "generate"
                   /\ signatures' = r.sigs
                   /\ stats' = [n_total |-> r.n_total, n_resolved |-> r.n_resolved,
                                n_dropped |-> r.n_dropped]
    /\ UNCHANGED <<args, exists, universe, infiles, fileIdx, pos, counters, written, run,
                   nread, raisedOn, parsed, ingested, inserted, firstIn, firstOut>>

\* lines 293-294
Generate ==
    /\ pc = "generate"
    /\ written' = [written EXCEPT ![args.output] = generate(signatures)]
    /\ pc' = "done"
    /\ UNCHANGED <<args, exists, universe, infiles, fileIdx, pos, signatures, counters,
                   stats, run, nread, raisedOn, parsed, ingested, inserted, frozen,
                   firstIn, firstOut>>

\* the tool is run again, with the same parameters, on the file it emitted
Rerun ==
    /\ pc = "done"
    /\ run = 1
    /\ written[args.output] # <<>>
    /\ run' = 2
    /\ firstIn' = ingested
    /\ firstOut' = written[args.output]
    /\ args' = [args EXCEPT !.input = <<args.output>>, !.directory = <<>>,
                            !.output = SecondOut]
    /\ pc' = "main"
    /\ infiles' = <<>>
    /\ fileIdx' = 0
    /\ pos' = 0
    /\ signatures' = <<>>
    /\ counters' = NoCounters
    /\ stats' = NoStats
    /\ nread' = 0
    /\ raisedOn' = <<>>
    /\ parsed' = <<>>
    /\ ingested' = {}
    /\ inserted' = {}
    /\ frozen' = <<>>
    /\ UNCHANGED <<exists, universe, written>>

Next ==
    \/ Main
    \/ OpenFile
    \/ ReadLine
    \/ EndOfFile
    \/ HandleConflicts
    \/ Generate
    \/ Rerun

Spec == Init /\ [][Next]_vars

SpecMain == InitMain /\ [][Next]_vars

(***************************************************************************)
(* Properties                                                              *)
(***************************************************************************)
\* handle_conflicts has returned
Resolved == pc \in {"generate", "done"}

\* the record lines of an emitted file: all but the sentinel line
Body(out) == SubSeq(out, 1, Len(out) - 1)

\* (prelude, crc_len, crc16) of an emitted line
TripleOf(line) == SubSeq(Split(Strip(line)), 1, 3)

HasLeaf(sigs, crc, pre) == DictHas(sigs, crc) /\ DictHas(DictGet(sigs, crc), pre)

LeafOf(sigs, crc, pre) == DictGet(DictGet(sigs, crc), pre)

\* the leaves handle_conflicts found holding two or more records
Colliding(sigs) == {i \in 1..Len(Leaves(sigs)) : Cardinality(Leaves(sigs)[i].leaf) >= 2}

\* the score of a leaf as handle_conflicts computes it
Score(leaf) == similarity_group(Fcns(SortedSet(leaf)))

\* C1: after parse, handle_conflicts with auto-resolution and generate, the
\* emitted file holds at most one line for any (crc_len, crc16, prelude), and
\* every emitted line is a canonical string that parse inserted.
C1_OneLinePerTriple ==
    (pc = "done" /\ args.auto /\ written[args.output] # <<>>) =>
        LET out == Body(written[args.output])
        IN  /\ \A i, j \in 1..Len(out) : i # j => TripleOf(out[i]) # TripleOf(out[j])
            /\ \A i \in 1..Len(out) : \E c \in inserted : out[i] = c \o <<Newline>>

\* a run over two files that resolved a collision and emitted two lines
C1_Witness ==
    /\ pc = "done" /\ run = 1 /\ args.auto
    /\ Len(parsed) = 2
    /\ stats.n_resolved >= 2
    /\ Cardinality(inserted) = 3
    /\ Len(written[args.output]) = 3

\* C2: without auto-resolution, a leaf of two or more records makes the run
\* end with exit status 1; generate is not reached and the output file is
\* not written.
C2_ConflictAborts ==
    (~args.auto /\ Colliding(frozen) # {}) =>
        (pc = "exit1" /\ written[args.output] = <<>>)

C2_Witness == ~args.auto /\ Colliding(frozen) # {} /\ pc = "exit1"

\* C3: with auto-resolution, a leaf of two or more records is deleted exactly
\* when its key is "00 0000" or its score is strictly below the threshold, and
\* is otherwise collapsed to one of its records; a leaf of one record stays,
\* holding that record.
C3_DropOrCollapse ==
    (Resolved /\ args.auto) =>
        \A i \in 1..Len(Leaves(frozen)) :
            LET l == Leaves(frozen)[i]
                gone == ~HasLeaf(signatures, l.crc, l.pre)
            IN  /\ Cardinality(l.leaf) >= 2 =>
                     (gone <=> (l.crc = ZeroCrc \/ RatLess(Score(l.leaf), args.threshold)))
                /\ ~gone => LeafOf(signatures, l.crc, l.pre) \in l.leaf
                /\ Cardinality(l.leaf) = 1 => ~gone

\* a colliding leaf under "00 0000" of score 1.0 was deleted, beside a leaf of
\* one record that stayed
C3_Witness ==
    /\ Resolved /\ args.auto
    /\ \E i \in Colliding(frozen) :
           LET l == Leaves(frozen)[i]
           IN  l.crc = ZeroCrc /\ Score(l.leaf) = <<1, 1>> /\ ~HasLeaf(signatures, l.crc, l.pre)
    /\ \E i \in 1..Len(Leaves(frozen)) :
           LET l == Leaves(frozen)[i]
           IN  Cardinality(l.leaf) = 1 /\ HasLeaf(signatures, l.crc, l.pre)

\* C4: the record kept of a colliding leaf is the least of the leaf in the
\* order of strings.
C4_KeepsSmallest ==
    (Resolved /\ args.auto) =>
        \A i \in Colliding(frozen) :
            LET l == Leaves(frozen)[i]
            IN  HasLeaf(signatures, l.crc, l.pre) =>
                    \A c \in l.leaf : \/ c = LeafOf(signatures, l.crc, l.pre)
                                      \/ StrLess(LeafOf(signatures, l.crc, l.pre), c)

\* a leaf of three records was collapsed
C4_Witness ==
    /\ Resolved /\ args.auto
    /\ \E i \in Colliding(frozen) :
           LET l == Leaves(frozen)[i]
           IN  Cardinality(l.leaf) = 3 /\ HasLeaf(signatures, l.crc, l.pre)

\* the second invocation has ended, one way or another
Ended == pc \in {"done", "exit1", "crash"}

\* the second invocation reproduced the emitted file without dropping or
\* resolving anything
Reproduced ==
    /\ pc = "done"
    /\ written[args.output] = firstOut
    /\ inserted = {Strip(firstOut[i]) : i \in 1..(Len(firstOut) - 1)}
    /\ Colliding(frozen) = {}
    /\ counters.n_dropped = 0
    /\ stats.n_dropped = 0 /\ stats.n_resolved = 0

\* the lines the first invocation read have at most 7 fields
AtMostSevenFields == \A l \in firstIn : Len(Split(Strip(l))) <= 7

\* C5 as claimed, on input lines of at most 7 fields: the pipeline run on any
\* emitted file ends by reproducing it.
C5_AnyEmittedFile == (run = 2 /\ Ended /\ AtMostSevenFields) => Reproduced

\* C5, amended: when the input lines have at most 7 fields and the emitted
\* file holds at least one record, the pipeline run on the emitted file
\* neither aborts nor raises, and reproduces the file: every line is inserted
\* as it stands, no leaf collides, nothing is dropped or resolved.
C5_Idempotent ==
    (run = 2 /\ Len(firstOut) > 1 /\ AtMostSevenFields) =>
        /\ pc \notin {"exit1", "crash"}
        /\ pc = "done" => Reproduced

\* an emitted file holding a record with a postlude was reproduced
C5_Witness ==
    /\ run = 2 /\ pc = "done" /\ Len(firstOut) > 1
    /\ \E i \in 1..(Len(firstOut) - 1) : Len(Split(Strip(firstOut[i]))) = 7
    /\ written[args.output] = firstOut

\* what parse keeps of a set of lines
Accepted(S) ==
    {r \in {ParseLine(l, PatMaxPostlude, args.max_masked) : l \in S} : r.kind = "add"}

\* the records of one leaf, and what handle_conflicts leaves of them
Group(S, r) == {q.canon : q \in {x \in Accepted(S) : x.key = r.key /\ x.prelude = r.prelude}}

Survivors(S, r) ==
    IF Cardinality(Group(S, r)) = 1 THEN Group(S, r)
    ELSE IF r.key = ZeroCrc \/ RatLess(Score(Group(S, r)), args.threshold) THEN {}
    ELSE {MinStr(Group(S, r))}

\* the output as a function of the set of lines read alone
OutputOf(S) ==
    SortedSet({c \o <<Newline>> : c \in UNION {Survivors(S, r) : r \in Accepted(S)}})
    \o <<Sentinel \o <<Newline>>>>

\* C6: the emitted file is determined by the set of lines read, whatever
\* their order, their split into files and the order of the files.
C6_Deterministic ==
    (run = 1 /\ pc = "done" /\ written[args.output] # <<>>) =>
        written[args.output] = OutputOf(ingested)

\* two files were parsed and the leaves were not created in sorted order
C6_Witness ==
    /\ run = 1 /\ pc = "done" /\ written[args.output] # <<>>
    /\ Len(parsed) = 2
    /\ counters.n_signatures = 3
    /\ Body(written[args.output]) #
           [i \in 1..Len(Leaves(signatures)) |-> Leaves(signatures)[i].leaf \o <<Newline>>]

\* C7: parse skips a line of fewer than 6 fields: no run ends at such a line
\* with an exception.
C7_ShortLineSkipped == ~(pc = "crash" /\ Len(Split(Strip(raisedOn))) < 6)

\* C8: parse completes on every record of 7 fields, for every maximum
\* postlude length main accepts.
C8_PostludeCut == ~(pc = "crash" /\ args.max_postlude >= 0 /\ Len(Split(Strip(raisedOn))) = 7)

\* the colliding leaves handle_conflicts collapsed, and those it deleted
Collapsed == {i \in Colliding(frozen) :
                 HasLeaf(signatures, Leaves(frozen)[i].crc, Leaves(frozen)[i].pre)}

Deleted == Colliding(frozen) \ Collapsed

RECURSIVE RecordsIn(_)
RecordsIn(I) ==
    IF I = {} THEN 0
    ELSE LET i == CHOOSE x \in I : TRUE
         IN  Cardinality(Leaves(frozen)[i].leaf) + RecordsIn(I \ {i})

\* C9 as claimed: Resolved and Dropped count leaves.
C9_CountsLeaves ==
    (Resolved /\ args.auto) =>
        /\ stats.n_resolved = Cardinality(Collapsed)
        /\ stats.n_dropped = Cardinality(Deleted)

\* C9, amended: Resolved is the number of records held by the collapsed
\* leaves, Dropped the number of records held by the deleted leaves, and Kept
\* the number of records of all the leaves that were not deleted.
C9_CountsRecords ==
    (Resolved /\ args.auto) =>
        /\ stats.n_resolved = RecordsIn(Collapsed)
        /\ stats.n_dropped = RecordsIn(Deleted)
        /\ stats.n_total - stats.n_dropped = RecordsIn((1..Len(Leaves(frozen))) \ Deleted)

\* a leaf of two records was collapsed beside a leaf of one record
C9_Witness ==
    /\ Resolved /\ args.auto
    /\ Cardinality(Collapsed) = 1
    /\ stats.n_total = 3
    /\ stats.n_resolved = 2

\* C10: the declared output path is not among the files handed to parse.
C10_OutputNotParsed == \A i \in 1..Len(parsed) : parsed[i] # args.output

\* a line that is a record of 6 or 7 fields with a symbol the filter accepts
IsRecord(l) ==
    LET line == Strip(l)
    IN  /\ ~StartsWith(line, <<Hash>>) /\ line # <<>> /\ line # Sentinel
        /\ Len(Split(line)) \in {6, 7}
        /\ ~is_bad_symbol(Split(line)[6])

\* the pattern of a record: the prelude, then the postlude cut to twice the
\* maximum postlude length and stripped of its trailing mask markers
PatternOf(tokens) ==
    IF Len(tokens) > 6
    THEN tokens[1] \o RStripDots(SubSeq(tokens[7], 1,
             IF Len(tokens[7]) > PatMaxPostlude THEN PatMaxPostlude ELSE Len(tokens[7])))
    ELSE tokens[1]

\* masked_chars * 100 > (100 - t) * total_chars
Gated(l) ==
    /\ IsRecord(l)
    /\ CountDots(PatternOf(Split(Strip(l)))) * 100
           > (100 - args.max_masked) * Len(PatternOf(Split(Strip(l))))

\* the records read so far that the gate must reject
GatedRead == {l \in ingested : Gated(l)}

\* a string comes from the record line l: same prelude, key, size, offset, symbol
FromLine(c, l) ==
    /\ Len(Split(Strip(c))) >= 6
    /\ SubSeq(Split(Strip(c)), 1, 6) = SubSeq(Split(Strip(l)), 1, 6)

\* n_dropped of the files parsed, with the count of the file being parsed
DroppedSoFar ==
    counters.n_dropped + (IF pc \in {"read", "crash"} THEN counters.file_dropped ELSE 0)

\* the gate keeps a rejected record out of signatures and out of the output
GateKeepsOut ==
    \A l \in GatedRead :
        /\ \A c \in inserted : ~FromLine(c, l)
        /\ \A i \in 1..Len(written[args.output]) : ~FromLine(written[args.output][i], l)

\* C11: a record whose pattern has masked * 100 > (100 - t) * total is never
\* inserted, never emitted, is counted as dropped, and does not abort the run.
C11_GateDrops ==
    /\ GateKeepsOut
    /\ DroppedSoFar >= Cardinality(GatedRead)
    /\ ~(pc = "crash" /\ Gated(raisedOn))

\* what holds of C11 in the code: the record is kept out, and it is counted as
\* dropped unless parse raises on it
C11_GateWhereParseReturns ==
    /\ GateKeepsOut
    /\ DroppedSoFar >= Cardinality({l \in GatedRead : ~(pc = "crash" /\ raisedOn = l)})

====
